---- MODULE Spec2Model ----
(***************************************************************************)
(* FUELIFY price ledger: the unique-index variant of the service           *)
(* (src/server/index.js lines 1-211).  One PriceHistory document per       *)
(* (stationId, date); POST /api/update-price merges one grade into today's *)
(* document, the two admin GET routes project the collection.              *)
(*                                                                         *)
(* Encoding.  A price is an integer number of cents; the JavaScript null   *)
(* is Null.  An instant is a tick count; its ISO string is the pair        *)
(* <<day, tick of the day>>, ordered the way the strings are ordered, and  *)
(* a YYYY-MM-DD string is the day number.                                  *)
(***************************************************************************)
EXTENDS Integers, Sequences, FiniteSets, TLC

\* ---- bounds of the model ----
MaxReq == 2          \* update-price requests that get past validation in a run
TicksPerDay == 2     \* clock ticks in one UTC day
MaxElapsed == 2      \* clock ticks a run may take
MaxPriorDays == 30   \* days of earlier ledger contents a run may start from
MaxInFlight == 2     \* chart-data requests of the admin page in flight at once
MaxLogs == 3         \* entries of the history of database.json in a run

\* ---- program constants ----
Null == -1
DuplicateKey == 11000
SnapshotLimit == 120
ChartLimit == 30

GRADES == {"regular", "midgrade", "premium", "diesel"}
STATIONS == {"1", "2", "3", "4"}

\* ---- request inputs ----
Missing == ""
NotAString == "#7"
Body(s, f, p, a) == [stationId |-> s, fuelType |-> f, price |-> p, updatedBy |-> a]

\* Bodies every check accepts.
ValidBodies ==
  {Body(s, f, p, a) : s \in {"1", "2"}, f \in {"regular", "diesel"},
                      p \in {"3.49", "3.99"}, a \in {Missing, "Bob"}}

\* Accepted bodies whose updatedBy has blanks around it or is all blanks.
PaddedBodies ==
  {Body("2", "diesel", "3.99", " Bob "), Body("2", "diesel", "3.99", "  ")}

\* Bodies that fail one check, or several at once, or whose updatedBy is a
\* number.
InvalidBodies ==
  {Body(Missing, "regular", "3.49", "Bob"), Body("1", Missing, "3.49", "Bob"),
   Body("1", "regular", Missing, "Bob"), Body("1", "octane", "3.49", "Bob"),
   Body("999", "regular", "3.49", "Bob"), Body("1", "regular", "-5", "Bob"),
   Body("1", "regular", "0", Missing), Body("1", "regular", "abc", "Bob"),
   Body("999", "octane", "3.49", "Bob"), Body("999", "regular", "-5", "Bob"),
   Body("1", "octane", "abc", "Bob"), Body("999", "octane", Missing, "Bob"),
   Body("1", "regular", "3.49", NotAString)}

Bodies == ValidBodies \cup PaddedBodies \cup InvalidBodies

SeriesInputs == {"1", "2", "999"}

NaN == [kind |-> "NaN", val |-> 0]
Num(v) == [kind |-> "num", val |-> v]

\* Number(price) on the request values above, in cents.
ToNumber(p) ==
  CASE p = "3.49" -> Num(349)
    [] p = "3.99" -> Num(399)
    [] p = "-5" -> Num(-500)
    [] p = "0" -> Num(0)
    [] OTHER -> NaN

IsFinite(n) == n.kind = "num"

\* (updatedBy || "Staff").trim(): a falsy updatedBy gives "Staff"; trim() strips
\* the blanks at both ends and is no method of a number.
Trim(s) ==
  CASE s = " Bob " -> "Bob"
    [] s = "  " -> ""
    [] OTHER -> s

OrStaff(a) == IF a = Missing THEN "Staff" ELSE a

HasTrim(a) == a # NotAString

NormalizeActor(a) == Trim(OrStaff(a))

\* now.toISOString() and .split("T")[0]
ToISOString(t) == <<t \div TicksPerDay, t % TicksPerDay>>
LocalDatePart(iso) == iso[1] + 1

DatePart(iso) == iso[1]

\* String order of two ISO instants.
IsoLess(a, b) == a[1] < b[1] \/ (a[1] = b[1] /\ a[2] < b[2])

VARIABLES store, nextId, now, req, out, applied, readyState

\* The state of the other variants of the service and of the pages.
VARIABLES fetch, priceHistory, db, form, posts, notify,
          view, selectedStation, chartData, lastFetchedStation, chartRequests

staffVars == <<form, posts, notify>>
adminVars ==
  <<view, selectedStation, chartData, lastFetchedStation, chartRequests>>
others == <<fetch, priceHistory, db, staffVars, adminVars>>
serviceVars == <<store, nextId, req, applied, readyState>>

vars == <<store, nextId, now, req, out, applied, readyState, others>>

Slots == 1..MaxReq
StartDay == MaxPriorDays
NoResponse == [op |-> "none"]
IdleReq == [pc |-> "idle"]

\* ---- the connection and the middleware in front of the routes ----
\* mongoose.connection.readyState
Disconnected == 0
Connected == 1
Connecting == 2

NotDisconnected == readyState # Disconnected

IsDbReady == readyState = Connected

NotReadyResponse ==
  [op |-> "not-ready", status |-> 503,
   error |-> "DB not ready, try again in a few seconds"]

\* The middleware of lines 46-51 when the connection is not ready.
FailFast ==
  /\ out' = NotReadyResponse
  /\ UNCHANGED <<store, nextId, now, req, applied, readyState, others>>

\* cors() answers an OPTIONS request itself, ahead of every later middleware.
Preflight ==
  /\ out' = [op |-> "preflight", status |-> 204]
  /\ UNCHANGED <<store, nextId, now, req, applied, readyState, others>>

\* express.json() rejects a body that is no JSON; the request reaches neither
\* the readiness middleware nor a route.
MalformedBody ==
  /\ out' = [op |-> "body-parser", status |-> 400, error |-> "entity.parse.failed"]
  /\ UNCHANGED <<store, nextId, now, req, applied, readyState, others>>

\* The connection drops, reconnects, is back.
ConnectionChange ==
  /\ readyState' = CASE readyState = Connected -> Disconnected
                      [] readyState = Disconnected -> Connecting
                      [] OTHER -> Connected
  /\ out' = NoResponse
  /\ UNCHANGED <<store, nextId, now, req, applied, others>>

\* ---- the PriceHistory collection ----
SchemaDefaults(id) ==
  [id |-> id, stationId |-> Missing, date |-> 0, time |-> <<0, 0>>,
   updatedBy |-> "Staff",
   regular |-> Null, midgrade |-> Null, premium |-> Null, diesel |-> Null]

Filter(r) == [stationId |-> r.stationId, date |-> r.dateKey]

MatchingStationOnly(st, f) == {d \in st : d.stationId = f.stationId}

Matching(st, f) == {d \in st : d.stationId = f.stationId /\ d.date = f.date}

\* findOne: the first match in natural (insertion) order.
FirstMatch(st, f) ==
  CHOOSE d \in Matching(st, f) : \A e \in Matching(st, f) : d.id <= e.id

\* $set of the update document.
ApplyGradeOnly(d, r) == [d EXCEPT ![r.fuelType] = r.price]

ApplyIfNull(d, r) ==
  [d EXCEPT !.time = r.timeKey, !.updatedBy = r.updatedBy,
            ![r.fuelType] = IF @ = Null THEN r.price ELSE @]

ApplyInc(d, r) ==
  [d EXCEPT !.time = r.timeKey, !.updatedBy = r.updatedBy,
            ![r.fuelType] = IF @ = Null THEN r.price ELSE @ + r.price]

ReplaceDoc(d, r) ==
  [SchemaDefaults(d.id) EXCEPT !.stationId = r.stationId, !.date = r.dateKey,
     !.time = r.timeKey, !.updatedBy = r.updatedBy, ![r.fuelType] = r.price]

ApplySet(d, r) ==
  [d EXCEPT !.time = r.timeKey, !.updatedBy = r.updatedBy,
            ![r.fuelType] = r.price]

\* $setOnInsert of the update document.
ApplySetOnInsert(d, r) ==
  [d EXCEPT !.stationId = r.stationId, !.date = r.dateKey]

\* The document an upsert inserts (setDefaultsOnInsert).
InsertAllGrades(id, r) ==
  [ApplySetOnInsert(SchemaDefaults(id), r) EXCEPT
     !.time = r.timeKey, !.updatedBy = r.updatedBy,
     !.regular = r.price, !.midgrade = r.price, !.premium = r.price,
     !.diesel = r.price]

InsertedDoc(id, r) == ApplySet(ApplySetOnInsert(SchemaDefaults(id), r), r)

\* The unique index {stationId: 1, date: 1}.
NoIndex(st, d) == FALSE

UniqueIndexViolated(st, d) ==
  \E e \in st : e.stationId = d.stationId /\ e.date = d.date

UpdateFirst(st, r) ==
  LET d == FirstMatch(st, Filter(r)) IN (st \ {d}) \cup {ApplySet(d, r)}

\* ---- ledger history kept for the properties ----
\* applied maps <<stationId, date, grade>> to the amount of the write applied
\* last for it.
LogWrite(log, r) == (<<r.stationId, r.dateKey, r.fuelType>> :> r.price) @@ log

UpdateResponse(status, i, r) ==
  [op |-> "update-price", status |-> status, dateKey |-> r.dateKey,
   stationId |-> r.stationId, slot |-> i]

ErrorResponse(status, msg) ==
  [op |-> "update-price", status |-> status, error |-> msg]

\* ---- POST /api/update-price ----
ValidateStationFirst(stationId, fuelType, price) ==
  IF stationId = Missing \/ fuelType = Missing \/ price = Missing
    THEN ErrorResponse(400, "Missing fields")
  ELSE IF stationId \notin STATIONS
    THEN ErrorResponse(404, "Station not found")
  ELSE IF fuelType \notin GRADES
    THEN ErrorResponse(400, "Invalid fuelType")
  ELSE IF ~IsFinite(ToNumber(price)) \/ ToNumber(price).val <= 0
    THEN ErrorResponse(400, "Invalid price")
  ELSE NoResponse

ValidateAnyPrice(stationId, fuelType, price) ==
  IF stationId = Missing \/ fuelType = Missing \/ price = Missing
    THEN ErrorResponse(400, "Missing fields")
  ELSE IF fuelType \notin GRADES
    THEN ErrorResponse(400, "Invalid fuelType")
  ELSE IF stationId \notin STATIONS
    THEN ErrorResponse(404, "Station not found")
  ELSE NoResponse

ValidateAnyStation(stationId, fuelType, price) ==
  IF stationId = Missing \/ fuelType = Missing \/ price = Missing
    THEN ErrorResponse(400, "Missing fields")
  ELSE IF fuelType \notin GRADES
    THEN ErrorResponse(400, "Invalid fuelType")
  ELSE IF ~IsFinite(ToNumber(price)) \/ ToNumber(price).val <= 0
    THEN ErrorResponse(400, "Invalid price")
  ELSE NoResponse

\* Validation, lines 70-88: the status and message of the first failing check.
Validate(stationId, fuelType, price) ==
  IF stationId = Missing \/ fuelType = Missing \/ price = Missing
    THEN ErrorResponse(400, "Missing fields")
  ELSE IF fuelType \notin GRADES
    THEN ErrorResponse(400, "Invalid fuelType")
  ELSE IF stationId \notin STATIONS
    THEN ErrorResponse(404, "Station not found")
  ELSE IF ~IsFinite(ToNumber(price)) \/ ToNumber(price).val <= 0
    THEN ErrorResponse(400, "Invalid price")
  ELSE NoResponse

FreeSlot ==
  CHOOSE i \in DOMAIN req :
    req[i].pc = "idle" /\ \A j \in DOMAIN req : req[j].pc = "idle" => i <= j

\* The handler up to its first await: validate, read the clock, build the
\* filter and update, send the creating findOneAndUpdate.
UpdatePrice(body) ==
  LET stationId == body.stationId
      fuelType == body.fuelType
      price == body.price
      updatedBy == body.updatedBy
      v == Validate(stationId, fuelType, price) IN
  IF v # NoResponse
    THEN /\ out' = v
         /\ UNCHANGED <<store, nextId, now, req, applied, readyState, others>>
  ELSE IF ~HasTrim(OrStaff(updatedBy))
    THEN /\ out' = ErrorResponse(500, "trim is not a function")
         /\ UNCHANGED <<store, nextId, now, req, applied, readyState, others>>
    ELSE /\ \E i \in DOMAIN req : req[i].pc = "idle"
         /\ req' = [req EXCEPT ![FreeSlot] =
              [pc |-> "find", stationId |-> stationId, fuelType |-> fuelType,
               price |-> ToNumber(price).val,
               updatedBy |-> NormalizeActor(updatedBy),
               dateKey |-> DatePart(ToISOString(now)),
               timeKey |-> ToISOString(now),
               status |-> 0, receivedAt |-> now, writes |-> 1,
               conflicts |-> 0]]
         /\ out' = NoResponse
         /\ UNCHANGED <<store, nextId, now, applied, readyState, others>>

\* A POST /api/update-price whose body parsed: the readiness middleware, then
\* the route.
Receive(body) == IF IsDbReady THEN UpdatePrice(body) ELSE FailFast

\* The store runs the query of findOneAndUpdate(filter, update, {upsert: true}):
\* a match is updated in place; with no match the upsert goes on to insert.
UpsertFind(i) ==
  /\ req[i].pc = "find"
  /\ IsDbReady
  /\ IF Matching(store, Filter(req[i])) # {}
       THEN /\ store' = UpdateFirst(store, req[i])
            /\ applied' = LogWrite(applied, req[i])
            /\ req' = [req EXCEPT ![i].pc = "done", ![i].status = 200]
            /\ out' = UpdateResponse(200, i, req[i])
       ELSE /\ req' = [req EXCEPT ![i].pc = "insert"]
            /\ out' = NoResponse
            /\ UNCHANGED <<store, applied>>
  /\ UNCHANGED <<nextId, now, readyState, others>>

\* What the catch of lines 107-113 does with a duplicate-key error: retry.
GiveUp(code) == "fail"

AlwaysRetry(code) == "retry"

OnStoreError(code) == IF code = DuplicateKey THEN "retry" ELSE "fail"

\* The insert of the upsert: rejected with E11000 when the unique index already
\* holds the key, and then the handler sends the non-creating retry.
UpsertInsert(i) ==
  /\ req[i].pc = "insert"
  /\ IsDbReady
  /\ IF UniqueIndexViolated(store, InsertedDoc(nextId, req[i]))
       THEN /\ IF OnStoreError(DuplicateKey) = "retry"
                 THEN /\ req' = [req EXCEPT ![i].pc = "retry",
                                   ![i].writes = @ + 1, ![i].conflicts = @ + 1]
                      /\ out' = NoResponse
                 ELSE /\ req' = [req EXCEPT ![i].pc = "done", ![i].status = 500,
                                   ![i].conflicts = @ + 1]
                      /\ out' = ErrorResponse(500, "E11000 duplicate key")
            /\ UNCHANGED <<store, nextId, applied>>
       ELSE /\ store' = store \cup {InsertedDoc(nextId, req[i])}
            /\ nextId' = nextId + 1
            /\ applied' = LogWrite(applied, req[i])
            /\ req' = [req EXCEPT ![i].pc = "done", ![i].status = 200]
            /\ out' = UpdateResponse(200, i, req[i])
  /\ UNCHANGED <<now, readyState, others>>

\* findOneAndUpdate(filter, update, {upsert: false}), then the success response.
Retry(i) ==
  /\ req[i].pc = "retry"
  /\ IsDbReady
  /\ IF Matching(store, Filter(req[i])) # {}
       THEN /\ store' = UpdateFirst(store, req[i])
            /\ applied' = LogWrite(applied, req[i])
       ELSE UNCHANGED <<store, applied>>
  /\ req' = [req EXCEPT ![i].pc = "done", ![i].status = 200]
  /\ out' = UpdateResponse(200, i, req[i])
  /\ UNCHANGED <<nextId, now, readyState, others>>

\* err.message || "Save failed"
NoMessage == ""

MessageOr(msg) == IF msg = NoMessage THEN "Save failed" ELSE msg

\* An error of the driver that is no write conflict carries no code 11000.
NoCode == 0
StoreMessages == {NoMessage, "connection closed"}

\* A findOneAndUpdate that is in flight while the connection is not ready is
\* rejected.  The inner catch retries only a duplicate key; every other
\* rejection, and every rejection of the retry, reaches the outer catch.
StoreFail(i, msg) ==
  /\ req[i].pc \in {"find", "insert", "retry"}
  /\ ~IsDbReady
  /\ IF req[i].pc # "retry" /\ OnStoreError(NoCode) = "retry"
       THEN /\ req' = [req EXCEPT ![i].pc = "retry", ![i].writes = @ + 1]
            /\ out' = NoResponse
       ELSE /\ req' = [req EXCEPT ![i].pc = "done", ![i].status = 500]
            /\ out' = ErrorResponse(500, MessageOr(msg))
  /\ UNCHANGED <<store, nextId, now, applied, readyState, others>>

\* ---- queries: find().sort().limit() ----
Min(a, b) == IF a < b THEN a ELSE b

DatesOf(st) == {d.date : d \in st}

\* Order of the date strings under sort key -1 and under sort key 1.
OldestFirst(x, y) == x < y

Descending(x, y) == x > y

NewestFirst(x, y) == x > y

Ascending(x, y) == x < y

DayPrecedes(ord, x, y) ==
  IF ord = "recent" THEN Descending(x, y) ELSE Ascending(x, y)

\* Order of sort({date: -1, time: -1}); documents the sort keys tie on come in
\* natural order here, LimitCuts below covers the other orders.
RecentBefore(e, d) ==
  \/ DayPrecedes("recent", e.date, d.date)
  \/ e.date = d.date /\ IsoLess(d.time, e.time)
  \/ e.date = d.date /\ e.time = d.time /\ e.id < d.id

\* Order of sort({date: 1}).
DateBefore(e, d) ==
  DayPrecedes("date", e.date, d.date) \/ (e.date = d.date /\ e.id < d.id)

Precedes(ord, e, d) ==
  IF ord = "recent" THEN RecentBefore(e, d) ELSE DateBefore(e, d)

\* The documents of one date, sorted.
RECURSIVE SortSmall(_, _)
SortSmall(S, ord) ==
  IF S = {} THEN <<>>
  ELSE LET m == CHOOSE d \in S : \A e \in S \ {d} : Precedes(ord, d, e)
       IN <<m>> \o SortSmall(S \ {m}, ord)

\* A sort whose first key is the date: the dates before a middle date, that
\* date's documents, the dates after it.
RECURSIVE SortByDates(_, _, _)
SortByDates(st, dates, ord) ==
  IF dates = {} THEN <<>>
  ELSE LET mid == CHOOSE x \in dates :
                    Cardinality({y \in dates : DayPrecedes(ord, y, x)})
                      = Cardinality(dates) \div 2
       IN SortByDates(st, {y \in dates : DayPrecedes(ord, y, mid)}, ord)
            \o SortSmall({d \in st : d.date = mid}, ord)
            \o SortByDates(st, {y \in dates : DayPrecedes(ord, mid, y)}, ord)

SortRecent(st) == SortByDates(st, DatesOf(st), "recent")

SortByDate(st) == SortByDates(st, DatesOf(st), "date")

RecentTied(a, b) == a.date = b.date /\ a.time = b.time

DateTied(a, b) == a.date = b.date

\* limit(k) of a sorted result: documents that tie on the sort keys come in an
\* order the store does not fix, so which of the ties at the cut are kept is
\* open.  LimitCuts is the set of possible kept sets.
Tied(ord, a, b) == IF ord = "recent" THEN RecentTied(a, b) ELSE DateTied(a, b)

TieGroup(seq, k, ord) ==
  IF Len(seq) <= k THEN {}
  ELSE {seq[j] : j \in {j \in 1..Len(seq) : Tied(ord, seq[j], seq[k])}}

LimitCuts(seq, k, ord) ==
  LET group == TieGroup(seq, k, ord)
      sure == {seq[j] : j \in 1..Min(k, Len(seq))} \ group
  IN {sure \cup T : T \in {T \in SUBSET group :
                             Cardinality(T) + Cardinality(sure) = Min(k, Len(seq))}}

Keep(seq, kept) == SelectSeq(seq, LAMBDA d : d \in kept)

\* ---- GET /api/admin/price-history ----
\* doc.field ?? null
OrZero(v) == IF v = Null THEN 0 ELSE v

Coalesce(v) == IF v = Null THEN Null ELSE v

EntryWithoutActor(doc) ==
  [time |-> doc.time, updatedBy |-> "Staff",
   prices |-> [regular |-> Coalesce(doc.regular),
               midgrade |-> Coalesce(doc.midgrade),
               premium |-> Coalesce(doc.premium),
               diesel |-> Coalesce(doc.diesel)]]

SnapshotEntry(doc) ==
  [time |-> doc.time, updatedBy |-> doc.updatedBy,
   prices |-> [regular |-> Coalesce(doc.regular),
               midgrade |-> Coalesce(doc.midgrade),
               premium |-> Coalesce(doc.premium),
               diesel |-> Coalesce(doc.diesel)]]

\* historyByDate: its keys in insertion order, and the object under each key.
EmptyHistory == [dates |-> <<>>, at |-> <<>>]

PutEntry(h, doc) ==
  IF doc.date \in DOMAIN h.at
    THEN [h EXCEPT !.at[doc.date] =
            (doc.stationId :> <<SnapshotEntry(doc)>>) @@ h.at[doc.date]]
    ELSE [dates |-> Append(h.dates, doc.date),
          at |-> (doc.date :> (doc.stationId :> <<SnapshotEntry(doc)>>)) @@ h.at]

\* The for loop of lines 131-145 over data[lo..hi]: the first half of the
\* range is folded before the second.
RECURSIVE GroupByDate(_, _, _, _)
GroupByDate(data, lo, hi, h) ==
  IF lo > hi THEN h
  ELSE IF lo = hi THEN PutEntry(h, data[lo])
  ELSE LET mid == (lo + hi) \div 2
           left == GroupByDate(data, lo, mid, h)
       IN IF Len(left.dates) = 0 THEN left
          ELSE GroupByDate(data, mid + 1, hi, left)

History(data) == GroupByDate(data, 1, Len(data), EmptyHistory)

SnapshotResponse(sorted, kept) ==
  [op |-> "price-history", status |-> 200,
   history |-> History(Keep(sorted, kept)),
   from |-> {d.id : d \in kept}]

\* The responses the handler can send over the sorted collection.
SnapshotResponses(sorted) ==
  {SnapshotResponse(sorted, kept) : kept \in LimitCuts(sorted, SnapshotLimit, "recent")}

PriceHistoryRoute ==
  /\ out' \in SnapshotResponses(SortRecent(store))
  /\ UNCHANGED <<store, nextId, now, req, applied, readyState, others>>

ListRecentSnapshot == IF IsDbReady THEN PriceHistoryRoute ELSE FailFast

\* ---- GET /api/admin/chart-data/:stationId ----
ChartPoint(doc) ==
  [date |-> doc.date,
   regular |-> Coalesce(doc.regular), midgrade |-> Coalesce(doc.midgrade),
   premium |-> Coalesce(doc.premium), diesel |-> Coalesce(doc.diesel)]

OfStation(st, sid) == {d \in st : d.stationId = sid}

ChartData(data) == [i \in 1..Len(data) |-> ChartPoint(data[i])]

SeriesResponse(sorted, sid, kept) ==
  [op |-> "chart-data", status |-> 200, stationId |-> sid,
   data |-> ChartData(Keep(sorted, kept)),
   from |-> {d.id : d \in kept}]

SeriesResponses(sorted, sid) ==
  {SeriesResponse(sorted, sid, kept) : kept \in LimitCuts(sorted, ChartLimit, "date")}

ChartDataRoute(sid) ==
  /\ IF sid \notin STATIONS
       THEN out' = [op |-> "chart-data", status |-> 404, stationId |-> sid]
       ELSE out' \in SeriesResponses(SortByDate(OfStation(store, sid)), sid)
  /\ UNCHANGED <<store, nextId, now, req, applied, readyState, others>>

ListStationSeries(sid) == IF IsDbReady THEN ChartDataRoute(sid) ELSE FailFast

\* The wall clock.
Tick ==
  /\ now < StartDay * TicksPerDay + MaxElapsed
  /\ now' = now + 1
  /\ out' = NoResponse
  /\ UNCHANGED <<store, nextId, req, applied, readyState, others>>

\* ---- the updateOne variant of the service (src/unnamed/part_001) ----
\* Its collection has no unique index, its route validates nothing.
DIRECTORY == STATIONS \cup {"5"}

\* parseFloat(price) on the request values, in cents.
ParseFloat(p) == IF p = Missing THEN NaN ELSE ToNumber(p)

\* The $set of lines 147-153; strict mode drops a path the schema lacks.
UpdateOneSet(d, r) ==
  IF r.fuelType \in GRADES
    THEN [d EXCEPT !.time = r.timeKey, !.updatedBy = r.updatedBy,
                   ![r.fuelType] = r.price]
    ELSE [d EXCEPT !.time = r.timeKey, !.updatedBy = r.updatedBy]

\* The document an upsert inserts: the filter's fields, the $set, the defaults.
UpsertedDoc(id, r) ==
  UpdateOneSet([SchemaDefaults(id) EXCEPT !.stationId = Filter(r).stationId,
                                          !.date = Filter(r).date], r)

\* The route up to its await: read the clock, build filter and update, send
\* updateOne(filter, update, {upsert: true}).  A price that parses to NaN fails
\* the cast of the update and reaches the catch.
UpdateOneRoute(body) ==
  IF ~IsFinite(ParseFloat(body.price))
    THEN /\ out' = ErrorResponse(500, "Cast to Number failed")
         /\ UNCHANGED <<store, nextId, now, req, applied, readyState, others>>
    ELSE /\ \E i \in Slots : req[i].pc = "idle"
         /\ req' = [req EXCEPT ![FreeSlot] =
              [pc |-> "find", stationId |-> IF body.stationId = Missing THEN "undefined"
                             ELSE body.stationId,
               fuelType |-> body.fuelType,
               price |-> ParseFloat(body.price).val,
               updatedBy |-> OrStaff(body.updatedBy),
               dateKey |-> DatePart(ToISOString(now)),
               timeKey |-> ToISOString(now),
               status |-> 0, receivedAt |-> now, writes |-> 1,
               conflicts |-> 0]]
         /\ out' = NoResponse
         /\ UNCHANGED <<store, nextId, now, applied, readyState, others>>

\* POST /api/update-price of this variant.
UpdateOnePrice(body) ==
  IF IsDbReady
    THEN UpdateOneRoute(body)
    ELSE /\ out' = ErrorResponse(503, "DB not connected")
         /\ UNCHANGED <<store, nextId, now, req, applied, readyState, others>>

\* The store runs the query of the upsert: the first match is updated in
\* place; with no match the upsert goes on to insert.
UpdateOneFind(i) ==
  /\ req[i].pc = "find"
  /\ IsDbReady
  /\ IF Matching(store, Filter(req[i])) # {}
       THEN /\ store' = (store \ {FirstMatch(store, Filter(req[i]))})
                           \cup {UpdateOneSet(FirstMatch(store, Filter(req[i])), req[i])}
            /\ applied' = LogWrite(applied, req[i])
            /\ req' = [req EXCEPT ![i].pc = "done", ![i].status = 200]
            /\ out' = UpdateResponse(200, i, req[i])
       ELSE /\ req' = [req EXCEPT ![i].pc = "insert"]
            /\ out' = NoResponse
            /\ UNCHANGED <<store, applied>>
  /\ UNCHANGED <<nextId, now, readyState, others>>

\* The insert of the upsert.  No index stands in its way: it goes through
\* whatever the collection holds by now.
UpdateOneInsert(i) ==
  /\ req[i].pc = "insert"
  /\ IsDbReady
  /\ store' = store \cup {UpsertedDoc(nextId, req[i])}
  /\ nextId' = nextId + 1
  /\ applied' = LogWrite(applied, req[i])
  /\ req' = [req EXCEPT ![i].pc = "done", ![i].status = 200]
  /\ out' = UpdateResponse(200, i, req[i])
  /\ UNCHANGED <<now, readyState, others>>

\* An updateOne in flight while the connection is not ready is rejected; the
\* catch answers 500 with the error's message.
UpdateOneFail(i, msg) ==
  /\ req[i].pc \in {"find", "insert"}
  /\ ~IsDbReady
  /\ req' = [req EXCEPT ![i].pc = "done", ![i].status = 500]
  /\ out' = ErrorResponse(500, msg)
  /\ UNCHANGED <<store, nextId, now, applied, readyState, others>>

\* ---- GET /api/stations of the updateOne variant ----
\* value || 0 and value || "Never": null and 0 are falsy.
OrElse(v, dflt) == IF v = Null \/ v = 0 THEN dflt ELSE v

\* lastUpdated is a time or one of two words.

OfflineStation(s) ==
  [id |-> s, prices |-> [g \in GRADES |-> 0], lastUpdated |-> [word |-> "Offline", time |-> <<0, 0>>]]

\* findOne({stationId}).sort({date: -1, time: -1}): a record of the station
\* that no other of its records sorts before; null when it has none.
Latest(st, s) ==
  {d \in st : /\ d.stationId = s
              /\ \A e \in st : e.stationId = s =>
                   ~(\/ DayPrecedes("recent", e.date, d.date)
                     \/ e.date = d.date /\ IsoLess(d.time, e.time))}

\* The entry of a station whose findOne gave latestPrice.
StationWithPrices(s, latestPrice) ==
  [id |-> s,
   prices |-> [g \in GRADES |-> OrElse(latestPrice[g], 0)],
   lastUpdated |-> [word |-> "", time |-> latestPrice.time]]

\* The entry of a station whose findOne gave null.
StationWithoutPrices(s) ==
  [id |-> s, prices |-> [g \in GRADES |-> 0], lastUpdated |-> [word |-> "Never", time |-> <<0, 0>>]]

\* The route up to its await: the offline answer, or one findOne per station.
StationsRoute ==
  /\ fetch.pc = "idle"
  /\ IF IsDbReady
       THEN /\ fetch' = [pc |-> "reading", got |-> <<>>]
            /\ out' = NoResponse
       ELSE /\ out' = [op |-> "stations", status |-> 200, list |-> [s \in DIRECTORY |-> OfflineStation(s)]]
            /\ UNCHANGED fetch
  /\ UNCHANGED <<serviceVars, now, priceHistory, db, staffVars, adminVars>>

\* The answer to the list once Promise.all has every station's entry.
Gathered(got) ==
  IF DOMAIN got = DIRECTORY
    THEN /\ fetch' = [pc |-> "idle", got |-> <<>>]
         /\ out' = [op |-> "stations", status |-> 200, list |-> got]
    ELSE /\ fetch' = [fetch EXCEPT !.got = got]
         /\ out' = NoResponse

\* The store answers the findOne of one station.
FindLatest(s) ==
  /\ fetch.pc = "reading"
  /\ s \notin DOMAIN fetch.got
  /\ IsDbReady
  /\ IF Latest(store, s) = {}
       THEN Gathered((s :> StationWithoutPrices(s)) @@ fetch.got)
       ELSE \E d \in Latest(store, s) :
              Gathered((s :> StationWithPrices(s, d)) @@ fetch.got)
  /\ UNCHANGED <<serviceVars, now, priceHistory, db, staffVars, adminVars>>

\* A findOne in flight while the connection is not ready is rejected.
FindLatestFail ==
  /\ fetch.pc = "reading"
  /\ ~IsDbReady
  /\ fetch' = [pc |-> "idle", got |-> <<>>]
  /\ out' = [op |-> "stations", status |-> 500, error |-> "Failed to fetch stations"]
  /\ UNCHANGED <<serviceVars, now, priceHistory, db, staffVars, adminVars>>

\* ---- the in-memory variant of the service (src/server/index.js 345-462) ----
\* JSON has no NaN: a price that parses to none is kept as this value.
NotANumber == -2

ParsedPrice(p) == IF IsFinite(ParseFloat(p)) THEN ParseFloat(p).val ELSE NotANumber

\* priceHistory[dateKey][stationId], [] when either level is not there yet.
EntriesOf(h, dateKey, stationId) ==
  IF dateKey \in DOMAIN h /\ stationId \in DOMAIN h[dateKey]
    THEN h[dateKey][stationId]
    ELSE <<>>

\* todayEntry = priceHistory[dateKey][stationId][0] is an entry.
NeverToday(list) == FALSE

HasToday(list) == Len(list) > 0

\* Lines 392-400: the list with today's entry at its head.
WithToday(list, timeKey, updatedBy) ==
  IF HasToday(list) THEN list ELSE <<[time |-> timeKey, updatedBy |-> OrStaff(updatedBy),
            prices |-> [g \in GRADES |-> Null]]>> \o list

\* Lines 403-405 on today's entry.
SetPrice(entry, fuelType, price, timeKey, updatedBy) ==
  [entry EXCEPT !.prices = (fuelType :> ParsedPrice(price)) @@ @,
                !.time = timeKey, !.updatedBy = OrStaff(updatedBy)]

\* priceHistory with list at [dateKey][stationId].
PutEntries(h, dateKey, stationId, list) ==
  (dateKey :> ((stationId :> list) @@
                 (IF dateKey \in DOMAIN h THEN h[dateKey] ELSE <<>>))) @@ h

\* POST /api/update-price of this variant: one synchronous handler.
MemoryUpdatePrice(body) ==
  LET dateKey == DatePart(ToISOString(now))
      timeKey == ToISOString(now)
      list == WithToday(EntriesOf(priceHistory, dateKey, body.stationId),
                        timeKey, body.updatedBy)
  IN /\ IF body.stationId = Missing \/ body.price = Missing \/ body.fuelType = Missing
          THEN /\ out' = ErrorResponse(400, "Missing fields")
               /\ UNCHANGED priceHistory
        ELSE IF body.stationId \notin STATIONS
          THEN /\ out' = ErrorResponse(404, "Station not found")
               /\ UNCHANGED priceHistory
          ELSE /\ priceHistory' =
                    PutEntries(priceHistory, dateKey, body.stationId,
                      [list EXCEPT ![1] = SetPrice(@, body.fuelType, body.price,
                                                   timeKey, body.updatedBy)])
               /\ out' = [op |-> "update-price", status |-> 200,
                       dateKey |-> dateKey, stationId |-> body.stationId]
     /\ UNCHANGED <<serviceVars, now, fetch, db, staffVars, adminVars>>

\* ---- the admin page (src/unnamed/part_001, AdminPage) ----
\* chartData is null or the array of a chart-data response.
Loaded(points) == [loaded |-> TRUE, points |-> points]

\* Array.prototype.reverse
Reverse(seq) == [i \in 1..Len(seq) |-> seq[Len(seq) + 1 - i]]

\* A render of the page.  The chart branch of lines 730-736 calls
\* chartData.reverse(), which reverses the array held in the state in place.
Render(v, station, data) ==
  IF v = "chart" /\ data.loaded /\ station # Missing
    THEN Loaded(Reverse(data.points))
    ELSE data

\* The effect of lines 513-518 after a render with view v and the selection
\* station: it notes the station and sends its chart-data request.
ChartEffect(v, station) ==
  IF v = "chart" /\ station # Missing /\ lastFetchedStation # station
    THEN /\ Len(chartRequests) < MaxInFlight
         /\ lastFetchedStation' = station
         /\ chartRequests' = Append(chartRequests, station)
    ELSE UNCHANGED <<lastFetchedStation, chartRequests>>

\* setView of the two buttons: a render, then the effect.
SetView(v) ==
  /\ v # view
  /\ view' = v
  /\ chartData' = Render(v, selectedStation, chartData)
  /\ ChartEffect(v, selectedStation)
  /\ UNCHANGED <<selectedStation, out, serviceVars, now, fetch,
                 priceHistory, db, staffVars>>

\* setSelectedStation of the select box: a render, then the effect.
SetSelectedStation(station) ==
  /\ station # selectedStation
  /\ selectedStation' = station
  /\ chartData' = Render(view, station, chartData)
  /\ ChartEffect(view, station)
  /\ UNCHANGED <<view, out, serviceVars, now, fetch, priceHistory,
                 db, staffVars>>

\* A render that a state change of the 10-second refresh causes
\* (setRefreshing, setAdminData of fetchAdminData).
RefreshRender ==
  /\ chartData' = Render(view, selectedStation, chartData)
  /\ UNCHANGED <<view, selectedStation, lastFetchedStation, chartRequests, out,
                 serviceVars, now, fetch, priceHistory, db, staffVars>>

Without(seq, k) == [i \in 1..(Len(seq) - 1) |-> IF i < k THEN seq[i] ELSE seq[i + 1]]

\* The chart-data request sent k-th of those in flight is answered (lines
\* 197-221) and fetchChartData goes on: setChartData(res.data.data) and a
\* render, or the catch when the answer is an error.
FetchChartDataDone(k) ==
  /\ k \in 1..Len(chartRequests)
  /\ IF ~IsDbReady
       THEN /\ out' = [op |-> "chart-data", status |-> 503, stationId |-> chartRequests[k]]
            /\ UNCHANGED chartData
     ELSE IF chartRequests[k] \notin DIRECTORY
       THEN /\ out' = [op |-> "chart-data", status |-> 404, stationId |-> chartRequests[k]]
            /\ UNCHANGED chartData
       ELSE /\ out' \in SeriesResponses(SortByDate(OfStation(store, chartRequests[k])),
                                        chartRequests[k])
            /\ chartData' = Render(view, selectedStation, Loaded(out'.data))
  /\ chartRequests' = Without(chartRequests, k)
  /\ UNCHANGED <<view, selectedStation, lastFetchedStation, serviceVars, now,
                 fetch, priceHistory, db, staffVars>>

\* ---- the staff page (src/unnamed/part_001, StaffPage) ----
FormState(stationId, staffName, prices) ==
  [stationId |-> stationId, staffName |-> staffName, prices |-> prices]

EmptyPrices == [g \in GRADES |-> Missing]

\* A post of the submission: not sent, sent, fulfilled or rejected.
NoPost == [state |-> "none", body |-> Body(Missing, Missing, Missing, Missing)]

\* priceKeys.every(key => prices[key] !== '' && Number(prices[key]) > 0)
AllPricesEntered(prices) ==
  \A key \in DOMAIN prices :
    /\ prices[key] # Missing
    /\ IsFinite(ToNumber(prices[key]))
    /\ ToNumber(prices[key]).val > 0

\* handleSubmit up to its await on a form filled as f: the three checks, then
\* one update-price post per grade, all sent at once.
HandleSubmit(f) ==
  /\ \A g \in GRADES : posts[g].state = "none"
  /\ form' = f
  /\ IF f.stationId = Missing
       THEN notify' = "Please select a store first" /\ UNCHANGED posts
     ELSE IF Trim(f.staffName) = Missing
       THEN notify' = "Staff name is required" /\ UNCHANGED posts
     ELSE IF ~AllPricesEntered(f.prices)
       THEN notify' = "Please enter all four fuel prices" /\ UNCHANGED posts
       ELSE /\ notify' = "loading"
            /\ posts' = [fuelType \in GRADES |->
                 [state |-> "sent",
                  body |-> Body(f.stationId, fuelType, f.prices[fuelType], f.staffName)]]
  /\ UNCHANGED <<out, serviceVars, now, fetch, priceHistory, db,
                 adminVars>>

\* The request of the post for grade g that the service has taken up.
Taken(g) == {i \in DOMAIN req : req[i].pc # "idle" /\ req[i].fuelType = g}

\* The post for grade g reaches the service.  When the connection is not
\* ready the middleware of lines 46-51 answers 503 and axios rejects the post.
Deliver(g) ==
  /\ posts[g].state = "sent"
  /\ Taken(g) = {}
  /\ IF IsDbReady
       THEN UpdatePrice(posts[g].body)
       ELSE /\ out' = NotReadyResponse
            /\ posts' = [posts EXCEPT ![g].state = "rejected"]
            /\ notify' = IF notify = "loading" THEN "Failed to submit prices"
                         ELSE notify
            /\ UNCHANGED <<form, serviceVars, now, fetch, priceHistory,
                           db, adminVars>>

\* Promise.all after the post for grade g settles as state: the first
\* rejection rejects it, the last fulfilment fulfils it and handleSubmit goes
\* on to its notification.
Settled(g, state) ==
  /\ posts' = [posts EXCEPT ![g].state = state]
  /\ IF notify # "loading"
       THEN UNCHANGED <<notify, form>>
     ELSE IF state = "rejected"
       THEN notify' = "Failed to submit prices" /\ UNCHANGED form
     ELSE IF \A h \in GRADES \ {g} : posts[h].state = "fulfilled"
       THEN /\ notify' = "All Prices Updated Successfully!"
            /\ form' = [form EXCEPT !.prices = EmptyPrices]
       ELSE UNCHANGED <<notify, form>>

\* The response to the post for grade g arrives.
PostDone(g) ==
  /\ posts[g].state = "sent"
  /\ \E i \in Taken(g) :
       /\ req[i].pc = "done"
       /\ Settled(g, IF req[i].status = 200 THEN "fulfilled" ELSE "rejected")
  /\ UNCHANGED <<out, serviceVars, now, fetch, priceHistory, db,
                 adminVars>>

\* ---- the file-backed variant of the service (src/unnamed/part_000 206-312) ----
\* db is the content of database.json.  A price is kept as the request gave
\* it, a string; the numbers of the default data are written as strings here.
DefaultPrices(r, m, p, d) == [regular |-> r, midgrade |-> m, premium |-> p, diesel |-> d]

InitialData ==
  [stations |->
     <<[id |-> 1, name |-> "Shell - Downtown",
        prices |-> DefaultPrices("2.50", "2.80", "3.10", "3.00")],
       [id |-> 2, name |-> "Chevron - North Hwy",
        prices |-> DefaultPrices("2.65", "2.95", "3.25", "3.15")],
       [id |-> 3, name |-> "Exxon - West Ave",
        prices |-> DefaultPrices("2.45", "2.75", "3.05", "2.95")]>>,
   history |-> <<>>]

\* s.id == stationId: the number a station id string converts to.
IdOf(stationId) ==
  CASE stationId = "1" -> 1 [] stationId = "2" -> 2 [] stationId = "3" -> 3
    [] OTHER -> 999

\* findIndex: the first index whose station matches, 0 for -1.
FindIndex(stations, stationId) ==
  IF \E k \in 1..Len(stations) : stations[k].id = IdOf(stationId)
    THEN CHOOSE k \in 1..Len(stations) :
           /\ stations[k].id = IdOf(stationId)
           /\ \A j \in 1..(k - 1) : stations[j].id # IdOf(stationId)
    ELSE 0

\* {...old, ...prices}: every key of prices replaces the old value.
Spread(old, prices) ==
  [g \in DOMAIN old \cup DOMAIN prices |->
     IF g \in DOMAIN prices THEN prices[g] ELSE old[g]]

PriceUpdateLog(name, user, prices) ==
  [id |-> now, timestamp |-> ToISOString(now), stationName |-> name,
   updatedBy |-> OrStaff(user), type |-> "PRICE_UPDATE", details |-> prices]

\* POST /api/update-price of this variant: one synchronous handler.
FileUpdatePrice(body) ==
  LET index == FindIndex(db.stations, body.stationId) IN
  /\ Len(db.history) < MaxLogs
  /\ IF index = 0
       THEN /\ out' = ErrorResponse(404, "Station not found")
            /\ UNCHANGED db
       ELSE /\ db' = [stations |->
                        [db.stations EXCEPT ![index].prices = Spread(@, body.prices)],
                      history |->
                        Append(db.history,
                               PriceUpdateLog(db.stations[index].name, body.user,
                                              body.prices))]
            /\ out' = [op |-> "update-price", status |-> 200,
                       log |-> PriceUpdateLog(db.stations[index].name, body.user,
                                              body.prices)]
  /\ UNCHANGED <<serviceVars, now, fetch, priceHistory, staffVars, adminVars>>

\* handleSubmit of the staff screen (src/client/src/App.tsx 325-347) with the
\* station selectedStation and the form formData, and the service's handling
\* of its post.
StaffScreenSubmit(station, formData) ==
  IF station = Missing
    THEN /\ out' = [op |-> "toast", status |-> 0, error |-> "Please select a store"]
         /\ UNCHANGED <<db, serviceVars, now, fetch, priceHistory,
                        staffVars, adminVars>>
    ELSE FileUpdatePrice([stationId |-> station, user |-> "Staff_User",
                          prices |-> formData])

\* parseFloat(lat), parseFloat(lng), in hundredths.
ParseCoordinate(c) ==
  CASE c = "41.38" -> 4138
    [] c = "-81.73" -> -8173
    [] OTHER -> NotANumber

NewStation(name, lat, lng) ==
  [id |-> now, name |-> name,
   prices |-> DefaultPrices("0", "0", "0", "0"),
   lat |-> ParseCoordinate(lat), lng |-> ParseCoordinate(lng)]

RegistrationLog(name, lat, lng) ==
  [id |-> now, timestamp |-> ToISOString(now), stationName |-> name,
   updatedBy |-> "System Admin", type |-> "REGISTRATION",
   details |-> [lat |-> lat, lng |-> lng]]

\* POST /api/stations: one synchronous handler.
RegisterStation(name, lat, lng) ==
  /\ Len(db.history) < MaxLogs
  /\ IF name = Missing \/ lat = Missing \/ lng = Missing
       THEN /\ out' = [op |-> "register", status |-> 400, error |-> "Missing fields"]
            /\ UNCHANGED db
       ELSE /\ db' = [stations |-> Append(db.stations, NewStation(name, lat, lng)),
                      history |-> Append(db.history, RegistrationLog(name, lat, lng))]
            /\ out' = [op |-> "register", status |-> 200,
                       station |-> NewStation(name, lat, lng)]
  /\ UNCHANGED <<serviceVars, now, fetch, priceHistory, staffVars, adminVars>>

OthersInit ==
  /\ fetch = [pc |-> "idle", got |-> <<>>]
  /\ priceHistory = <<>>
  /\ db = InitialData
  /\ form = FormState(Missing, Missing, EmptyPrices)
  /\ posts = [g \in GRADES |-> NoPost]
  /\ notify = Missing
  /\ view = "table"
  /\ selectedStation = Missing
  /\ chartData = [loaded |-> FALSE, points |-> <<>>]
  /\ lastFetchedStation = Missing
  /\ chartRequests = <<>>

Init ==
  /\ store = {}
  /\ nextId = 1
  /\ now = StartDay * TicksPerDay
  /\ req = [i \in Slots |-> IdleReq]
  /\ out = NoResponse
  /\ applied = <<>>
  /\ readyState = Connected
  /\ OthersInit

Next ==
  \/ \E body \in Bodies : Receive(body)
  \/ \E i \in Slots : UpsertFind(i)
  \/ \E i \in Slots : UpsertInsert(i)
  \/ \E i \in Slots : Retry(i)
  \/ \E i \in Slots, msg \in StoreMessages : StoreFail(i, msg)
  \/ Tick
  \/ ConnectionChange
  \/ Preflight
  \/ MalformedBody
  \/ ListRecentSnapshot
  \/ \E sid \in SeriesInputs : ListStationSeries(sid)

Spec == Init /\ [][Next]_vars

\* ---- runs of update-price traffic alone ----
\* Two amounts and two actors for one grade of station "1", a second grade of
\* it, two bodies for station "2", one rejected body.
WriteBodies ==
  {Body("1", "regular", "3.49", "Bob"), Body("1", "regular", "3.99", Missing),
   Body("1", "diesel", "3.99", "Bob"), Body("2", "diesel", "3.99", " Bob "),
   Body("2", "regular", "3.49", "  "), Body("1", "regular", "-5", "Bob")}

NextWrites ==
  \/ \E body \in WriteBodies : Receive(body)
  \/ \E i \in Slots : UpsertFind(i)
  \/ \E i \in Slots : UpsertInsert(i)
  \/ \E i \in Slots : Retry(i)
  \/ Tick

SpecWrites == Init /\ [][NextWrites]_vars

\* ---- runs of accepted and rejected update-price requests ----
ValidationBodies ==
  InvalidBodies \cup
    {Body("1", "regular", "3.49", "Bob"), Body("2", "diesel", "3.99", Missing)}

NextValidation ==
  \/ \E body \in ValidationBodies : Receive(body)
  \/ \E i \in Slots : UpsertFind(i)
  \/ \E i \in Slots : UpsertInsert(i)
  \/ \E i \in Slots : Retry(i)

SpecValidation == Init /\ [][NextValidation]_vars

\* ---- runs in which the connection comes and goes ----
\* Two grades of one station, a rejected body, a body whose updatedBy is a
\* number.
OutageBodies ==
  {Body("1", "regular", "3.49", "Bob"), Body("1", "diesel", "3.99", Missing),
   Body("999", "regular", "3.49", "Bob"), Body("1", "regular", "3.49", NotAString)}

NextOutage ==
  \/ \E body \in OutageBodies : Receive(body)
  \/ \E i \in Slots : UpsertFind(i)
  \/ \E i \in Slots : UpsertInsert(i)
  \/ \E i \in Slots : Retry(i)
  \/ \E i \in Slots, msg \in StoreMessages : StoreFail(i, msg)
  \/ ConnectionChange
  \/ Preflight
  \/ MalformedBody
  \/ ListRecentSnapshot
  \/ \E sid \in SeriesInputs : ListStationSeries(sid)

SpecOutage == Init /\ [][NextOutage]_vars

\* ---- runs that start from earlier ledger contents ----
StationIndex(s) == CASE s = "1" -> 0 [] s = "2" -> 1 [] s = "3" -> 2 [] OTHER -> 3

\* One document per station of S for each of the p days before StartDay, as
\* update-price requests of those days leave them.
PriorDoc(p, day, s) ==
  [id |-> (day - (StartDay - p)) * Cardinality(STATIONS) + StationIndex(s) + 1,
   stationId |-> s, date |-> day,
   time |-> <<day, StationIndex(s) % TicksPerDay>>,
   updatedBy |-> IF day % 2 = 0 THEN "Staff" ELSE "Bob",
   regular |-> 300 + StationIndex(s), midgrade |-> Null,
   premium |-> IF day % 2 = 0 THEN 380 ELSE Null, diesel |-> Null]

PriorLedger(p, S) ==
  {PriorDoc(p, day, s) : day \in (StartDay - p)..(StartDay - 1), s \in S}

\* The writes those documents come from.
PriorLog(st) ==
  [k \in {<<d.stationId, d.date, g>> : d \in st, g \in {"regular", "premium"}}
          \ {<<d.stationId, d.date, "premium">> : d \in {e \in st : e.premium = Null}}
     |-> IF k[3] = "regular" THEN 300 + StationIndex(k[1]) ELSE 380]

InitFrom(ledgers) ==
  /\ store \in ledgers
  /\ nextId = MaxPriorDays * Cardinality(STATIONS) + 1
  /\ now = StartDay * TicksPerDay
  /\ req = [i \in Slots |-> IdleReq]
  /\ out = NoResponse
  /\ applied = PriorLog(store)
  /\ readyState = Connected
  /\ OthersInit

\* A full ledger: every station has a record for each of the last days.
InitLedger == InitFrom({PriorLedger(MaxPriorDays, STATIONS)})

\* One station with a record for each of the last days, as many as a
\* chart-data response holds or one fewer.
InitSeries ==
  InitFrom({PriorLedger(ChartLimit - 1, {"1"}), PriorLedger(ChartLimit, {"1"})})

\* The requests of these runs, all of one day: two grades of station "1", one
\* body for station "2", one rejected body; the series of a station with
\* records and of an unknown station.
LedgerBodies ==
  {Body("1", "regular", "3.49", "Bob"), Body("1", "diesel", "3.99", "Bob"),
   Body("2", "regular", "3.99", Missing), Body("999", "regular", "3.49", "Bob")}

LedgerSeries == {"1", "999"}

NextLedger ==
  \/ \E body \in LedgerBodies : Receive(body)
  \/ \E i \in Slots : UpsertFind(i)
  \/ \E i \in Slots : UpsertInsert(i)
  \/ \E i \in Slots : Retry(i)
  \/ ListRecentSnapshot

SpecLedger == InitLedger /\ [][NextLedger]_vars

NextSeries ==
  \/ \E body \in LedgerBodies : Receive(body)
  \/ \E i \in Slots : UpsertFind(i)
  \/ \E i \in Slots : UpsertInsert(i)
  \/ \E i \in Slots : Retry(i)
  \/ ListRecentSnapshot
  \/ \E sid \in LedgerSeries : ListStationSeries(sid)

SpecSeries == InitSeries /\ [][NextSeries]_vars

\* ---- runs of the updateOne variant ----
\* Two grades of station "1", the same grade at another amount, a body of
\* station "2" with a zero price, a price that is no number.
UpdateOneBodies ==
  {Body("1", "regular", "3.49", "Bob"), Body("1", "diesel", "3.99", Missing),
   Body("1", "regular", "3.99", "Bob"), Body("2", "premium", "0", "Bob"),
   Body("1", "regular", "abc", "Bob")}

NextUpdateOne ==
  \/ \E body \in UpdateOneBodies : UpdateOnePrice(body)
  \/ \E i \in Slots : UpdateOneFind(i)
  \/ \E i \in Slots : UpdateOneInsert(i)
  \/ \E i \in Slots, msg \in StoreMessages \ {NoMessage} : UpdateOneFail(i, msg)
  \/ Tick
  \/ ConnectionChange

SpecUpdateOne == Init /\ [][NextUpdateOne]_vars

\* ---- runs of the station list of the updateOne variant ----
\* One grade of station "1" at two amounts, a zero price for station "2".
StationsBodies ==
  {Body("1", "regular", "3.49", "Bob"), Body("1", "regular", "3.99", "Bob"),
   Body("2", "premium", "0", "Bob")}

NextStations ==
  \/ \E body \in StationsBodies : UpdateOnePrice(body)
  \/ \E i \in Slots : UpdateOneFind(i)
  \/ \E i \in Slots : UpdateOneInsert(i)
  \/ StationsRoute
  \/ \E s \in DIRECTORY : FindLatest(s)
  \/ FindLatestFail
  \/ Tick
  \/ ConnectionChange

SpecStations == Init /\ [][NextStations]_vars

\* ---- runs of the in-memory variant ----
\* Two grades of station "1", one of them at two amounts and with and without
\* updatedBy, a fuelType that is no grade, a body of station "2"; a body with
\* a missing field and one of an unknown station.
MemoryBodies ==
  {Body("1", "regular", "3.49", "Bob"), Body("1", "regular", "3.99", Missing),
   Body("1", "diesel", "3.99", "Bob"), Body("1", "octane", "3.49", "Bob"),
   Body("2", "regular", "3.49", "Bob"),
   Body("1", "regular", Missing, "Bob"), Body("999", "regular", "3.49", "Bob")}

NextMemory ==
  \/ \E body \in MemoryBodies : MemoryUpdatePrice(body)
  \/ Tick

SpecMemory == Init /\ [][NextMemory]_vars

\* ---- runs of the admin page ----
\* Stations "1" and "2" have a record for each of the last three days,
\* station "3" has none.
InitAdmin == InitFrom({PriorLedger(3, {"1", "2"})})

NextAdmin ==
  \/ \E v \in {"table", "chart"} : SetView(v)
  \/ \E station \in {Missing, "1", "2", "3"} : SetSelectedStation(station)
  \/ RefreshRender
  \/ \E k \in 1..MaxInFlight : FetchChartDataDone(k)
  \/ ConnectionChange

SpecAdmin == InitAdmin /\ [][NextAdmin]_vars

\* ---- runs of the staff page against the service ----
\* The service can have the four posts of a submission in flight.
InitStaff ==
  /\ store = {}
  /\ nextId = 1
  /\ now = StartDay * TicksPerDay
  /\ req = [i \in 1..Cardinality(GRADES) |-> IdleReq]
  /\ out = NoResponse
  /\ applied = <<>>
  /\ readyState = Connected
  /\ OthersInit

\* A complete form; forms with no station, a blank name, an empty price, a
\* price of 0.
StaffForms ==
  LET full == [g \in GRADES |->
                 IF g \in {"regular", "midgrade"} THEN "3.49" ELSE "3.99"]
  IN {FormState("1", "Bob", full), FormState(Missing, "Bob", full),
      FormState("1", "  ", full),
      FormState("1", "Bob", [full EXCEPT !["diesel"] = Missing]),
      FormState("1", "Bob", [full EXCEPT !["premium"] = "0"])}

NextStaff ==
  \/ \E f \in StaffForms : HandleSubmit(f)
  \/ \E g \in GRADES : Deliver(g)
  \/ \E i \in 1..Cardinality(GRADES) : UpsertFind(i)
  \/ \E i \in 1..Cardinality(GRADES) : UpsertInsert(i)
  \/ \E i \in 1..Cardinality(GRADES) : Retry(i)
  \/ \E i \in 1..Cardinality(GRADES) : StoreFail(i, "connection closed")
  \/ \E g \in GRADES : PostDone(g)
  \/ ConnectionChange

SpecStaff == InitStaff /\ [][NextStaff]_vars

\* ---- runs of the file-backed variant with its staff screen ----
\* The form with nothing entered, with one grade, with two, with all four.
StaffScreenForms ==
  {[g \in GRADES |-> Missing],
   [[g \in GRADES |-> Missing] EXCEPT !["regular"] = "3.49"],
   [[g \in GRADES |-> Missing] EXCEPT !["regular"] = "3.99", !["diesel"] = "3.49"],
   [g \in GRADES |-> "3.99"]}

StaffScreenStations == {Missing, "1", "2"}

\* Registrations with every field and with one field missing.
Registrations ==
  {<<"Arco", "41.38", "-81.73">>, <<"Citgo", "41.38", "-81.73">>,
   <<Missing, "41.38", "-81.73">>, <<"Arco", Missing, "-81.73">>,
   <<"Arco", "41.38", Missing>>}

NextFile ==
  \/ \E station \in StaffScreenStations, formData \in StaffScreenForms :
       StaffScreenSubmit(station, formData)
  \/ \E body \in {[stationId |-> "999", user |-> Missing,
                   prices |-> [regular |-> "3.49"]]} : FileUpdatePrice(body)
  \/ \E r \in Registrations : RegisterStation(r[1], r[2], r[3])
  \/ Tick

SpecFile == Init /\ [][NextFile]_vars

\* ---- properties ----
Received == {i \in Slots : req[i].pc # "idle"}
Done == {i \in Slots : req[i].pc = "done"}
SameKey(i, j) ==
  req[i].stationId = req[j].stationId /\ req[i].dateKey = req[j].dateKey
RecordsOf(i) ==
  {d \in store : d.stationId = req[i].stationId /\ d.date = req[i].dateKey}
\* The step in which request i gets its response.
Completes(i) == req[i].pc \in {"find", "insert", "retry"} /\ req'[i].pc = "done"
WasApplied(sid, date, g) == <<sid, date, g>> \in DOMAIN applied
LastApplied(sid, date, g) == applied[<<sid, date, g>>]
StripTime(st) == {[d EXCEPT !.time = <<0, 0>>] : d \in st}

\* C1: the store never holds two records with the same (stationId, date),
\* whatever the interleaving of update-price calls.
C1_OneRecordPerStationDay ==
  \A d \in store, e \in store :
    (d.stationId = e.stationId /\ d.date = e.date) => d = e

\* Two calls raced to create the same new key and both have been answered.
C1_Witness ==
  \E i \in Done, j \in Done :
    i # j /\ SameKey(i, j) /\ req[i].conflicts = 1 /\ Cardinality(RecordsOf(i)) = 1

\* C2: a call that has passed validation and whose grade no other call for the
\* same station and day writes is answered with success, and from then on the
\* single record of that station and day holds the amount it submitted.
C2_NoLostUpdate ==
  \A i \in Done :
    (\A j \in Received \ {i} : SameKey(i, j) => req[j].fuelType # req[i].fuelType)
      => /\ req[i].status = 200
         /\ Cardinality(RecordsOf(i)) = 1
         /\ \A d \in RecordsOf(i) : d[req[i].fuelType] = req[i].price

\* Two calls for one station and day with distinct grades were in flight
\* together (one lost the creation race) and both are answered.
C2_Witness ==
  \E i \in Done, j \in Done :
    /\ SameKey(i, j) /\ req[i].fuelType # req[j].fuelType
    /\ req[i].conflicts = 1
    /\ \E d \in RecordsOf(i) : d.regular # Null /\ d.diesel # Null

\* C3: a call whose creating upsert met the duplicate-key conflict sends exactly
\* one more write, the non-creating retry, and is answered with success while
\* its grade, time and actor are in the one record of its key; no call sends
\* more than two writes, and no response reports the conflict.
C3_ConflictRetriedOnce ==
  /\ \A i \in Received :
       /\ req[i].writes <= 2 /\ req[i].conflicts <= 1
       /\ (req[i].writes = 2) <=> (req[i].conflicts = 1)
       /\ req[i].conflicts = 1 => req[i].pc \in {"retry", "done"}
       /\ req[i].pc = "done" => req[i].status = 200
  /\ (out.op = "update-price" /\ out.status # 200)
       => out.error # "E11000 duplicate key"
  /\ (out.op = "update-price" /\ out.status = 200 /\ req[out.slot].conflicts = 1)
       => /\ Cardinality(RecordsOf(out.slot)) = 1
          /\ \A d \in RecordsOf(out.slot) :
               /\ d[req[out.slot].fuelType] = req[out.slot].price
               /\ d.time = req[out.slot].timeKey
               /\ d.updatedBy = req[out.slot].updatedBy

\* The response of a call that went through the retry.
C3_Witness ==
  /\ out.op = "update-price" /\ out.status = 200
  /\ req[out.slot].conflicts = 1 /\ req[out.slot].writes = 2

\* C4: the step that applies a call's write leaves every record with another
\* (stationId, date) as it was, adds or changes no record but the one of its
\* key, and in that record keeps the three other grades (null in a record the
\* step creates); a step that applies no write leaves the store alone.
C4_Frame ==
  [][/\ (\A i \in Slots : ~Completes(i)) => store' = store
     /\ \A i \in Slots : Completes(i) =>
          /\ (store \ RecordsOf(i)) \subseteq store'
          /\ {e \in store' : e.stationId # req[i].stationId \/ e.date # req[i].dateKey}
               \subseteq store
          /\ \A e \in store' :
               (e.stationId = req[i].stationId /\ e.date = req[i].dateKey)
                 => \A g \in GRADES \ {req[i].fuelType} :
                      IF \E d \in store : d.id = e.id
                        THEN \A d \in store : d.id = e.id => e[g] = d[g]
                        ELSE e[g] = Null]_vars

\* A merge into a record that already held another grade, among earlier
\* records of the same station and of others.
C4_Witness ==
  /\ \E d \in store : d.regular # Null /\ d.diesel # Null
  /\ \E d \in store, e \in store :
       d.stationId = e.stationId /\ d.date # e.date /\ e.premium # Null
  /\ \E d \in store, e \in store : d.stationId # e.stationId

\* C5: every grade field of every record is null while no write for its
\* (stationId, date, grade) has been applied, and otherwise is the amount of
\* the write applied last for that (stationId, date, grade).
C5_LastWriteWinsPerGrade ==
  \A d \in store, g \in GRADES :
    d[g] = IF WasApplied(d.stationId, d.date, g)
             THEN LastApplied(d.stationId, d.date, g) ELSE Null

\* One grade of one record was written twice with different amounts while
\* another grade of that record was written too.
C5_Witness ==
  /\ \E i \in Done, j \in Done :
       /\ i # j /\ SameKey(i, j) /\ req[i].fuelType = req[j].fuelType
       /\ req[i].price # req[j].price
  /\ \E d \in store : d.regular # Null \/ d.diesel # Null

\* C6: applying a write whose grade, amount and actor the record of its key
\* already holds changes nothing in the store but the time of that record.
C6_Idempotent ==
  [][\A i \in Slots :
       (/\ Completes(i)
        /\ \E d \in RecordsOf(i) :
             d[req[i].fuelType] = req[i].price /\ d.updatedBy = req[i].updatedBy)
         => StripTime(store') = StripTime(store)]_vars

\* The same submission was applied twice, at two instants.
C6_Witness ==
  \E i \in Done, j \in Done :
    /\ i # j /\ SameKey(i, j) /\ req[i].fuelType = req[j].fuelType
    /\ req[i].price = req[j].price /\ req[i].updatedBy = req[j].updatedBy
    /\ req[i].timeKey # req[j].timeKey
    /\ \E d \in RecordsOf(i) : d[req[i].fuelType] = req[i].price

\* C7: the key of a call is the UTC day on which it was received, and the step
\* that applies its write changes no record of another day.
C7_DatePartition ==
  /\ [](\A i \in Received : req[i].dateKey = req[i].receivedAt \div TicksPerDay)
  /\ [][\A i \in Slots : Completes(i) =>
          \A d \in store : d.date # req[i].receivedAt \div TicksPerDay
                             => d \in store']_vars

\* Two calls for one station received on two days, each with its own record.
C7_Witness ==
  \E i \in Done, j \in Done :
    /\ req[i].stationId = req[j].stationId
    /\ req[i].receivedAt \div TicksPerDay # req[j].receivedAt \div TicksPerDay
    /\ RecordsOf(i) # {} /\ RecordsOf(j) # {} /\ RecordsOf(i) # RecordsOf(j)

\* Strict order of sort({date: -1, time: -1}), stated on the sort keys.
RanksBefore(e, d) ==
  e.date > d.date \/ (e.date = d.date /\ IsoLess(d.time, e.time))
\* used holds as many records as the limit allows, and none left out ranks
\* before one of them.
MostRecent(used, rest) ==
  /\ Cardinality(used) = Min(SnapshotLimit, Cardinality(used) + Cardinality(rest))
  /\ \A d \in used : \A e \in rest : ~RanksBefore(e, d)
\* The date keys are strictly descending, and the entries are those of used.
HistoryOf(used, dates, at) ==
  /\ \A a \in 1..Len(dates) : \A b \in 1..Len(dates) : a < b => dates[a] > dates[b]
  /\ {dates[a] : a \in 1..Len(dates)} = {d.date : d \in used}
  /\ DOMAIN at = {d.date : d \in used}
  /\ \A d \in used :
       /\ d.stationId \in DOMAIN at[d.date]
       /\ at[d.date][d.stationId] = <<SnapshotEntry(d)>>
  /\ \A day \in DOMAIN at :
       DOMAIN at[day] = {d.stationId : d \in {u \in used : u.date = day}}
PointsOn(data, day) == {k \in 1..Len(data) : data[k].date = day}

\* C8: when exactly two calls, for two grades g1 # g2 of one station and day D,
\* have succeeded and no other call is for that station and day, the series of
\* the station has exactly one entry dated D, with g1 and g2 at the submitted
\* amounts and the two other grades null.
C8_SeriesHasToday ==
  (out.op = "chart-data" /\ out.status = 200) =>
    \A i \in Done, j \in Done :
      (/\ i # j /\ SameKey(i, j) /\ req[i].stationId = out.stationId
       /\ req[i].fuelType # req[j].fuelType
       /\ req[i].status = 200 /\ req[j].status = 200
       /\ \A k \in Received \ {i, j} : ~SameKey(i, k))
        => /\ Cardinality(PointsOn(out.data, req[i].dateKey)) = 1
           /\ \A k \in PointsOn(out.data, req[i].dateKey) :
                /\ out.data[k][req[i].fuelType] = req[i].price
                /\ out.data[k][req[j].fuelType] = req[j].price
                /\ \A g \in GRADES \ {req[i].fuelType, req[j].fuelType} :
                     out.data[k][g] = Null

\* C9: in a price-history response and in a chart-data response, a grade for
\* which no write was applied on the entry's station and date is null, not 0.
C9_NullNotZero ==
  /\ out.op = "price-history" =>
       \A day \in DOMAIN out.history.at :
         \A sid \in DOMAIN out.history.at[day] :
           \A k \in 1..Len(out.history.at[day][sid]) :
             \A g \in GRADES :
               ~WasApplied(sid, day, g) =>
                 /\ out.history.at[day][sid][k].prices[g] = Null
                 /\ out.history.at[day][sid][k].prices[g] # 0
  /\ (out.op = "chart-data" /\ out.status = 200) =>
       \A k \in 1..Len(out.data) :
         \A g \in GRADES :
           ~WasApplied(out.stationId, out.data[k].date, g) =>
             /\ out.data[k][g] = Null
             /\ out.data[k][g] # 0

\* A snapshot entry of a record written in this run, with one grade written
\* and another never written.
C9_Witness ==
  /\ out.op = "price-history"
  /\ StartDay \in DOMAIN out.history.at
  /\ \E sid \in DOMAIN out.history.at[StartDay] :
       /\ out.history.at[StartDay][sid][1].prices.regular # Null
       /\ out.history.at[StartDay][sid][1].prices.diesel = Null
       /\ ~WasApplied(sid, StartDay, "diesel")

\* C10: a price-history response is built from min(120, number of records)
\* records, none of which ranks after a record left out in the order date
\* descending then time descending; its entries are exactly those of these
\* records, and its date keys are in strictly descending order.
C10_SnapshotOfMostRecent ==
  out.op = "price-history" =>
    /\ Cardinality(out.from) <= SnapshotLimit
    /\ MostRecent({d \in store : d.id \in out.from},
                  {d \in store : d.id \notin out.from})
    /\ HistoryOf({d \in store : d.id \in out.from}, out.history.dates, out.history.at)

\* A snapshot taken while the collection held more than 120 records.
C10_Witness ==
  /\ out.op = "price-history"
  /\ Cardinality(store) > SnapshotLimit
  /\ Cardinality(out.from) = SnapshotLimit
  /\ Len(out.history.dates) > 1

\* C11: a chart-data response for station s holds at most 30 entries, each the
\* projection of a record of station s, and its dates are strictly ascending
\* (so none is repeated).
C11_SeriesAscending ==
  (out.op = "chart-data" /\ out.status = 200) =>
    /\ Len(out.data) <= ChartLimit
    /\ \A k \in 1..Len(out.data) :
         \E d \in store :
           /\ d.stationId = out.stationId /\ d.id \in out.from
           /\ d.date = out.data[k].date
           /\ \A g \in GRADES : out.data[k][g] = d[g]
    /\ \A a \in 1..Len(out.data) : \A b \in 1..Len(out.data) :
         a < b => out.data[a].date < out.data[b].date

\* A series of several days that ends with a record written in this run.
C11_Witness ==
  /\ out.op = "chart-data" /\ out.status = 200
  /\ Len(out.data) = ChartLimit
  /\ out.data[Len(out.data)].date = StartDay
  /\ \E d \in store : d.stationId # out.stationId

\* What the claims call a valid grade and a valid price.
ValidGrade(body) == body.fuelType \in GRADES
ValidPrice(body) == IsFinite(ToNumber(body.price)) /\ ToNumber(body.price).val > 0

\* C12: an update-price request for a known station whose grade is none of the
\* four, or whose price is no finite number above 0, is answered 400, and the
\* step changes no record and sends nothing to the store.
C12_InvalidRejected ==
  [][\A body \in Bodies :
       (/\ body.stationId \in STATIONS
        /\ ~ValidGrade(body) \/ ~ValidPrice(body)
        /\ readyState = Connected
        /\ Receive(body))
         => /\ out'.op = "update-price" /\ out'.status = 400
            /\ store' = store /\ req' = req /\ applied' = applied]_vars

\* A price was rejected while the ledger held a record.
C12_Witness ==
  /\ out.op = "update-price" /\ out.status = 400
  /\ out.error = "Invalid price"
  /\ store # {}

\* C13: an update-price request that names a station outside the directory,
\* with a valid grade and a valid price, is answered 404 and the step changes
\* no record and sends nothing to the store; no record ever names a station
\* outside the directory.
C13_UnknownStationRejected ==
  /\ [](\A d \in store : d.stationId \in STATIONS)
  /\ [][\A body \in Bodies :
          (/\ body.stationId # Missing /\ body.stationId \notin STATIONS
           /\ ValidGrade(body) /\ ValidPrice(body)
           /\ readyState = Connected
           /\ Receive(body))
            => /\ out'.op = "update-price" /\ out'.status = 404
               /\ store' = store /\ req' = req /\ applied' = applied]_vars

\* An unknown station was rejected while the ledger held a record.
C13_Witness ==
  /\ out.op = "update-price" /\ out.status = 404
  /\ out.error = "Station not found"
  /\ store # {}
  /\ \A d \in store : d.stationId # "999"

\* The step is the receipt of a request under /api that got past cors() and
\* express.json().
ReachesReadinessCheck ==
  \/ \E body \in Bodies : Receive(body)
  \/ ListRecentSnapshot
  \/ \E sid \in SeriesInputs : ListStationSeries(sid)

\* The step is the receipt of any request under /api.
ReceivesApiRequest == ReachesReadinessCheck \/ Preflight \/ MalformedBody

\* C14 as stated: whenever the connection is not ready when a request under
\* /api is received, the answer is 503 and nothing is sent to the store.
C14_FailFastAlways ==
  [][(readyState # Connected /\ ReceivesApiRequest)
       => /\ out'.status = 503
          /\ store' = store /\ req' = req]_vars

\* C14, amended: whenever the connection is not ready when a request under
\* /api reaches the readiness middleware (it is no OPTIONS preflight and its
\* body parsed), the answer is 503, which is neither 400 nor 404, no check of
\* the route runs and nothing is sent to the store or changed in it.
C14_FailFast ==
  [][(readyState # Connected /\ ReachesReadinessCheck)
       => /\ out' = NotReadyResponse
          /\ out'.status = 503 /\ out'.status \notin {400, 404}
          /\ store' = store /\ req' = req /\ applied' = applied]_vars

\* A request was turned away while the ledger held a record and a write of
\* another request was in flight.
C14_Witness ==
  /\ readyState # Connected
  /\ out = NotReadyResponse
  /\ store # {}
  /\ \E i \in Slots : req[i].pc \in {"find", "insert", "retry"}

\* C16: when a findOneAndUpdate of a request is rejected for another reason
\* than the duplicate key, on the first attempt or on the retry, the same step
\* answers 500 with a message and the request is done; an updatedBy without
\* trim() is answered 500 as well; no request ends in another status than 200
\* or 500.
C16_FailuresAnswered500 ==
  /\ [](\A i \in Done : req[i].status \in {200, 500})
  /\ [][\A i \in Slots :
          (/\ req[i].pc \in {"find", "insert", "retry"}
           /\ readyState # Connected
           /\ req'[i] # req[i])
            => /\ req'[i].pc = "done" /\ req'[i].status = 500
               /\ out'.op = "update-price" /\ out'.status = 500
               /\ out'.error \in {"Save failed", "connection closed"}]_vars
  /\ [][\A body \in Bodies :
          (/\ body.stationId \in STATIONS /\ ValidGrade(body) /\ ValidPrice(body)
           /\ body.updatedBy = NotAString
           /\ readyState = Connected
           /\ Receive(body))
            => /\ out'.op = "update-price" /\ out'.status = 500
               /\ out'.error = "trim is not a function"
               /\ store' = store /\ req' = req]_vars

\* The retry of a request that had met the duplicate key was rejected.
C16_Witness ==
  /\ out.op = "update-price" /\ out.status = 500
  /\ \E i \in Done : req[i].status = 500 /\ req[i].conflicts = 1
  /\ \E i \in Done : req[i].status = 200

\* The actor the claim expects to be stored for a supplied updatedBy.
IsBlank(a) == Trim(a) = Missing
ExpectedActor(a) == IF IsBlank(a) THEN "Staff" ELSE Trim(a)

\* C15: the updatedBy that an accepted request carries to the store, and that
\* the step applying its write leaves in the record, is the supplied name
\* trimmed, and "Staff" when the supplied name is absent, empty or all blanks.
C15_ActorNormalized ==
  /\ [][\A body \in Bodies \cup WriteBodies : \A i \in Slots :
          (Receive(body) /\ req[i].pc = "idle" /\ req'[i].pc = "find")
            => req'[i].updatedBy = ExpectedActor(body.updatedBy)]_vars
  /\ [][\A i \in Slots :
          (Completes(i) /\ req'[i].status = 200)
            => \A d \in store' :
                 (d.stationId = req[i].stationId /\ d.date = req[i].dateKey)
                   => d.updatedBy = req[i].updatedBy]_vars

\* Every list of the history has one entry, and the entry has the time, the
\* actor and the four grades of one record of st with that date and station.
SingleEntries(at, st) ==
  \A day \in DOMAIN at : \A sid \in DOMAIN at[day] :
    /\ Len(at[day][sid]) = 1
    /\ \E d \in st :
         /\ d.date = day /\ d.stationId = sid
         /\ at[day][sid][1].time = d.time
         /\ at[day][sid][1].updatedBy = d.updatedBy
         /\ \A g \in GRADES : at[day][sid][1].prices[g] = d[g]

\* C17: in a price-history response history[date][stationId] is a list of
\* exactly one entry, which carries the time, updatedBy and four grade values
\* of one stored record of that date and station.
C17_OneEntryPerStationDay ==
  (out.op = "price-history" /\ out.status = 200) =>
    SingleEntries(out.history.at, store)

\* A snapshot with a day of several stations and with an entry of a record
\* written in this run by a named actor.
C17_Witness ==
  /\ out.op = "price-history" /\ out.status = 200
  /\ StartDay \in DOMAIN out.history.at
  /\ \E sid \in DOMAIN out.history.at[StartDay] :
       out.history.at[StartDay][sid][1].updatedBy = "Bob"
  /\ \E day \in DOMAIN out.history.at : Cardinality(DOMAIN out.history.at[day]) > 1

DayOf(t) == t \div TicksPerDay

\* C18 as stated: no record disappears, and once the day has advanced past D
\* no step changes a record whose date is D.
C18_ImmutableAfterRollover ==
  [][\A d \in store :
       /\ \E e \in store' : e.id = d.id
       /\ DayOf(now) > d.date => d \in store']_vars

\* C18, amended: no record disappears or changes its station or date, and a
\* record whose date is D is changed only by the write of a call that was
\* received on D (which may be applied after midnight), so by no call
\* received after the day has advanced past D.
C18_NoLateTargets ==
  [][/\ \A d \in store :
          \E e \in store' :
            e.id = d.id /\ e.stationId = d.stationId /\ e.date = d.date
     /\ \A d \in store :
          d \notin store' =>
            \E i \in Slots :
              /\ Completes(i) /\ req[i].stationId = d.stationId
              /\ DayOf(req[i].receivedAt) = d.date]_vars

\* After the day advanced, a call received on the new day was applied for a
\* station that has a record of the day before.
C18_Witness ==
  \E d \in store :
    /\ d.date = StartDay /\ DayOf(now) > StartDay
    /\ \E i \in Done :
         /\ req[i].stationId = d.stationId /\ req[i].status = 200
         /\ DayOf(req[i].receivedAt) = StartDay + 1
         /\ \E e \in RecordsOf(i) : e.date = StartDay + 1 /\ e.id # d.id

\* C19: once a call has been answered with success, the store holds a record
\* of its (stationId, dateKey) whose field for the call's grade is not null,
\* in that state and in every later one; the response carries that dateKey and
\* stationId, and dateKey is the UTC day on which the handler read the clock.
C19_SuccessMeansStored ==
  /\ \A i \in Done :
       req[i].status = 200 =>
         /\ \E d \in store :
              /\ d.stationId = req[i].stationId /\ d.date = req[i].dateKey
              /\ d[req[i].fuelType] # Null
         /\ req[i].dateKey = DayOf(req[i].receivedAt)
  /\ (out.op = "update-price" /\ out.status = 200) =>
       /\ req[out.slot].pc = "done" /\ req[out.slot].status = 200
       /\ out.dateKey = req[out.slot].dateKey
       /\ out.stationId = req[out.slot].stationId

\* A success response sent after midnight for a call received before it.
C19_Witness ==
  /\ out.op = "update-price" /\ out.status = 200
  /\ DayOf(now) > out.dateKey
  /\ \E d \in store : d.stationId = out.stationId /\ d.date = out.dateKey

\* The calls that were applied to record d.
AppliedTo(d) ==
  {i \in Done : /\ req[i].status = 200 /\ req[i].stationId = d.stationId
                /\ req[i].dateKey = d.date}

\* C20 as stated: the time of a record is the largest timestamp among the
\* calls applied to it, and updatedBy is the actor of such a call.
C20_TimeIsLargest ==
  \A d \in store :
    AppliedTo(d) # {} =>
      /\ \A i \in AppliedTo(d) : ~IsoLess(d.time, req[i].timeKey)
      /\ \E i \in AppliedTo(d) :
           req[i].timeKey = d.time /\ req[i].updatedBy = d.updatedBy

\* C20, amended: the step that applies a call's write leaves the call's
\* timestamp and actor in the record, whatever it held; the time and actor of
\* a record change in no other step, and the time decreases only when the
\* call applied has an earlier timestamp than the record held.
C20_TimeOfLastApplied ==
  [][/\ \A i \in Slots :
          (Completes(i) /\ req'[i].status = 200) =>
            \E e \in store' :
              /\ e.stationId = req[i].stationId /\ e.date = req[i].dateKey
              /\ e.time = req[i].timeKey /\ e.updatedBy = req[i].updatedBy
     /\ \A d \in store : \A e \in store' :
          (d.id = e.id /\ (d.time # e.time \/ d.updatedBy # e.updatedBy)) =>
            \E i \in Slots :
              /\ Completes(i) /\ req[i].stationId = d.stationId
              /\ req[i].dateKey = d.date
              /\ e.time = req[i].timeKey /\ e.updatedBy = req[i].updatedBy
     /\ \A d \in store : \A e \in store' :
          (d.id = e.id /\ IsoLess(e.time, d.time)) =>
            \E i \in Slots : Completes(i) /\ IsoLess(req[i].timeKey, d.time)]_vars

\* A record holds the time of a call applied after a call with a later
\* timestamp.
C20_Witness ==
  \E i \in Done, j \in Done :
    /\ i # j /\ SameKey(i, j) /\ req[i].status = 200 /\ req[j].status = 200
    /\ IsoLess(req[i].timeKey, req[j].timeKey)
    /\ \E d \in RecordsOf(i) :
         d.time = req[i].timeKey /\ d.updatedBy = req[i].updatedBy

\* ---- the other variants and the pages ----
\* The entry a step gives station s in the list that is being gathered.
GatheredEntry(s) == IF out'.op = "stations" THEN out'.list[s] ELSE fetch'.got[s]

\* C21: in the updateOne variant the store holds at most one record per
\* (stationId, date), also when requests for the same new key run
\* concurrently, and the successful writes of one key are all in that record.
C21_UpsertCreatesOnce ==
  /\ \A d \in store : \A e \in store :
       (d.stationId = e.stationId /\ d.date = e.date) => d.id = e.id
  /\ \A i \in Done : \A j \in Done :
       (req[i].status = 200 /\ req[j].status = 200 /\ SameKey(i, j))
         => (RecordsOf(i) = RecordsOf(j) /\ Cardinality(RecordsOf(i)) = 1)

\* C23: GET /api/stations of the updateOne variant gives each directory
\* station the four grade values and the time of the station's record that
\* ranks first by date descending then time descending, "Never" when it has no
\* record, and all prices 0 with "Offline" when the store is not ready; the
\* entry keeps the station's directory id.
C23_StationsShowLatest ==
  [][/\ \A s \in DIRECTORY :
         FindLatest(s) =>
           /\ GatheredEntry(s).id = s
           /\ IF Latest(store, s) = {}
                THEN GatheredEntry(s).lastUpdated = [word |-> "Never", time |-> <<0, 0>>]
                ELSE \E d \in Latest(store, s) :
                       /\ \A g \in GRADES : GatheredEntry(s).prices[g] = d[g]
                       /\ GatheredEntry(s).lastUpdated = [word |-> "", time |-> d.time]
     /\ (StationsRoute /\ readyState # Connected) =>
          \A s \in DIRECTORY :
            /\ out'.list[s].id = s
            /\ \A g \in GRADES : out'.list[s].prices[g] = 0
            /\ out'.list[s].lastUpdated = [word |-> "Offline", time |-> <<0, 0>>]]_vars

\* The prices today's entry of the body's station holds before the step, all
\* null when there is no entry yet, and those it holds after it.
PricesBefore(body) ==
  IF EntriesOf(priceHistory, DayOf(now), body.stationId) = <<>>
    THEN [g \in GRADES |-> Null]
    ELSE EntriesOf(priceHistory, DayOf(now), body.stationId)[1].prices
PricesAfter(body) == EntriesOf(priceHistory', DayOf(now), body.stationId)[1].prices

\* C22: in the in-memory variant priceHistory[date][stationId] never holds
\* more than one entry, and a successful update-price for grade g sets only
\* prices[g], time and updatedBy of today's entry of the station: the other
\* prices of that entry and all other entries stay as they were.
C22_MemorySingleEntry ==
  /\ [](\A date \in DOMAIN priceHistory : \A s \in DOMAIN priceHistory[date] :
          Len(priceHistory[date][s]) <= 1)
  /\ [][\A body \in MemoryBodies :
          (MemoryUpdatePrice(body) /\ out'.status = 200) =>
            /\ Len(EntriesOf(priceHistory', DayOf(now), body.stationId)) = 1
            /\ DOMAIN PricesAfter(body) = DOMAIN PricesBefore(body) \cup {body.fuelType}
            /\ \A g \in DOMAIN PricesBefore(body) \ {body.fuelType} :
                 PricesAfter(body)[g] = PricesBefore(body)[g]
            /\ \A date \in DOMAIN priceHistory \cup DOMAIN priceHistory' :
                 \A s \in STATIONS :
                   <<date, s>> # <<DayOf(now), body.stationId>> =>
                     EntriesOf(priceHistory', date, s) = EntriesOf(priceHistory, date, s)]_vars

\* An entry that two update-price requests for two grades have merged into,
\* next to an entry of another station.
C22_Witness ==
  \E date \in DOMAIN priceHistory :
    /\ DOMAIN priceHistory[date] = {"1", "2"}
    /\ priceHistory[date]["1"][1].prices["regular"] = 399
    /\ priceHistory[date]["1"][1].prices["diesel"] = 399
    /\ priceHistory[date]["1"][1].updatedBy = "Staff"

HasMissingField(body) ==
  body.stationId = Missing \/ body.fuelType = Missing \/ body.price = Missing

\* C24: the error of an update-price request that fails several checks is
\* that of the first failing check in the order missing field (400 "Missing
\* fields"), fuelType (400), station (404), price (400); the step sends that
\* one response, changes no record and sends nothing to the store.
C24_FirstFailingCheck ==
  [][\A body \in ValidationBodies :
       (readyState = Connected /\ Receive(body)) =>
         /\ HasMissingField(body) =>
              (out'.status = 400 /\ out'.error = "Missing fields")
         /\ (~HasMissingField(body) /\ ~ValidGrade(body)) =>
              (out'.status = 400 /\ out'.error = "Invalid fuelType")
         /\ (~HasMissingField(body) /\ ValidGrade(body)
               /\ body.stationId \notin STATIONS) =>
              (out'.status = 404 /\ out'.error = "Station not found")
         /\ (~HasMissingField(body) /\ ValidGrade(body)
               /\ body.stationId \in STATIONS /\ ~ValidPrice(body)) =>
              (out'.status = 400 /\ out'.error = "Invalid price")
         /\ (\/ HasMissingField(body) \/ ~ValidGrade(body)
             \/ body.stationId \notin STATIONS \/ ~ValidPrice(body)) =>
              (/\ out'.op = "update-price"
               /\ store' = store /\ req' = req /\ applied' = applied
               /\ nextId' = nextId)]_vars

\* A fuelType was rejected while a request that passed every check was with
\* the store.
C24_Witness ==
  /\ out.op = "update-price" /\ out.status = 400
  /\ out.error = "Invalid fuelType"
  /\ \E i \in Slots : req[i].pc \in {"find", "insert"}

\* C25: for every date of a price-history response, the response has an
\* entry for every station with a stored record of that date, however many
\* records are stored.
C25_SnapshotDatesComplete ==
  [][(ListRecentSnapshot /\ out'.op = "price-history" /\ out'.status = 200) =>
       \A date \in DOMAIN out'.history.at :
         \A d \in store :
           d.date = date => d.stationId \in DOMAIN out'.history.at[date]]_vars

\* The series the chart-data route gives for a station.
SeriesOf(station) ==
  {r.data : r \in SeriesResponses(SortByDate(OfStation(store, station)), station)}
ChartShown == view = "chart" /\ chartData.loaded /\ selectedStation # Missing
\* chartData holds the points of the selected station's series, in either order.
ShowsSelected ==
  \E series \in SeriesOf(selectedStation) :
    chartData.points \in {series, Reverse(series)}

\* C26: the chart data the admin page displays is the series of the selected
\* station, whatever the order of the selections and of the arrivals of the
\* chart-data responses.
C26_ChartOfSelectedStation == ChartShown => ShowsSelected

\* C27: the admin chart view lists the points of the selected station's series
\* in descending date order on every render, the re-renders of the refresh
\* included.
C27_ChartNewestFirst ==
  (ChartShown /\ ShowsSelected) =>
    \A a \in 1..Len(chartData.points) : \A b \in 1..Len(chartData.points) :
      a < b => chartData.points[a].date > chartData.points[b].date

\* C28: the staff form sends its requests only with a station selected, a
\* non-blank staff name and four prices above 0; it reports success only when
\* all four update-price requests succeeded; and when it reports "Failed to
\* submit prices" none of the four prices is stored, then or later.
C28_SubmissionAllOrNothing ==
  /\ (\E g \in GRADES : posts[g].state # "none") =>
       \A g \in GRADES :
         /\ posts[g].body.stationId # Missing
         /\ Trim(posts[g].body.updatedBy) # Missing
         /\ ValidPrice(posts[g].body)
  /\ notify = "All Prices Updated Successfully!" =>
       \A g \in GRADES :
         /\ posts[g].state = "fulfilled"
         /\ \E d \in store : d.stationId = posts[g].body.stationId
                              /\ d[g] = ToNumber(posts[g].body.price).val
  /\ notify = "Failed to submit prices" =>
       \A d \in store : \A g \in GRADES : d[g] = Null

\* C29: a submission of the staff screen with only some grades filled in
\* changes only the stored prices of those grades, the prices of the grades
\* left empty keep their values, and one PRICE_UPDATE entry is appended to the
\* history per successful submission.
C29_EmptyGradesKept ==
  [][\A station \in StaffScreenStations \ {Missing} :
       \A formData \in StaffScreenForms :
         (StaffScreenSubmit(station, formData) /\ out'.status = 200) =>
           /\ \A k \in 1..Len(db.stations) :
                \A g \in GRADES :
                  (db.stations[k].id # IdOf(station) \/ formData[g] = Missing) =>
                    db'.stations[k].prices[g] = db.stations[k].prices[g]
           /\ Len(db'.history) = Len(db.history) + 1
           /\ db'.history[Len(db'.history)].type = "PRICE_UPDATE"]_vars

\* C30: the stations of the file-backed variant have pairwise distinct ids
\* after any registrations, two in one clock millisecond included, and a
\* registration with a missing name, lat or lng is answered 400 and leaves
\* stations and history as they were.
C30_DistinctStationIds ==
  /\ [](\A a \in 1..Len(db.stations) : \A b \in 1..Len(db.stations) :
          a # b => db.stations[a].id # db.stations[b].id)
  /\ [][\A r \in Registrations :
          (RegisterStation(r[1], r[2], r[3])
             /\ (r[1] = Missing \/ r[2] = Missing \/ r[3] = Missing)) =>
            (out'.status = 400 /\ db' = db)]_vars
====
